---- MODULE Spec2Model ----
(***************************************************************************)
(* Model of function_app.py: the MCP tool handler list_jenkins_jobs, its   *)
(* helpers get_jenkins_jobs and get_jenkins_token, the process environment *)
(* and the remote Jenkins endpoint, for one invocation of the handler.     *)
(*                                                                         *)
(* Strings are sequences of one-character strings.  Python values are      *)
(* records [t, v]: t is the Python type, v the characters of a str.        *)
(***************************************************************************)
EXTENDS Naturals, Integers, Sequences, FiniteSets

\* ------------------------------------------------------------------ bounds
\* Longest job list the remote endpoint returns.
MaxJobs == 2

\* Characters of job names and search strings: two cases of one letter and
\* a letter that never matches it.
Alphabet == {"a", "A", "b"}

\* Job names and non-empty search strings: one or two characters.
Words == {<<c>> : c \in Alphabet} \cup {<<c, d>> : c \in Alphabet, d \in Alphabet}

\* ---------------------------------------------------------- Python values
PyNone == [t |-> "none", v |-> <<>>]
PyInt == [t |-> "int", v |-> <<>>]
PyStr(s) == [t |-> "str", v |-> s]

\* Python truth value of a None, a str or a non-zero int: `if x` / `not x`.
Truthy(x) == \/ x.t = "int"
             \/ x.t = "str" /\ x.v # <<>>

\* f"{x}": str(None) is the four characters None, a str formats as itself.
PyFormat(x) == IF x.t = "none" THEN <<"N", "o", "n", "e">> ELSE x.v

\* str.lower() on the model's characters.
LowerChar(c) == IF c = "A" THEN "a" ELSE c
Lower(s) == [i \in 1..Len(s) |-> LowerChar(s[i])]

\* Python `needle in haystack` for str: a contiguous occurrence.
StrIn(needle, haystack) ==
    \E i \in 0..(Len(haystack) - Len(needle)) :
        SubSeq(haystack, i + 1, i + Len(needle)) = needle

\* ----------------------------------------------------------------- base64
B64Alphabet ==
    << "A","B","C","D","E","F","G","H","I","J","K","L","M","N","O","P",
       "Q","R","S","T","U","V","W","X","Y","Z","a","b","c","d","e","f",
       "g","h","i","j","k","l","m","n","o","p","q","r","s","t","u","v",
       "w","x","y","z","0","1","2","3","4","5","6","7","8","9","+","/" >>

\* str.encode(): the ASCII code of each character of a credential pair.
Ord(c) == CASE c = "N" -> 78 [] c = "o" -> 111 [] c = "n" -> 110
            [] c = "e" -> 101 [] c = ":" -> 58 [] c = "t" -> 116
            [] c = "u" -> 117

Encode(s) == [i \in 1..Len(s) |-> Ord(s[i])]

B64Digit(n) == B64Alphabet[(n % 64) + 1]

RECURSIVE B64Encode(_)
B64Encode(bytes) ==
    IF Len(bytes) = 0 THEN <<>>
    ELSE IF Len(bytes) = 1 THEN
        LET n == bytes[1] * 16
        IN  <<B64Digit(n \div 64), B64Digit(n), "=", "=">>
    ELSE IF Len(bytes) = 2 THEN
        LET n == (bytes[1] * 256 + bytes[2]) * 4
        IN  <<B64Digit(n \div 4096), B64Digit(n \div 64), B64Digit(n), "=">>
    ELSE
        LET n == bytes[1] * 65536 + bytes[2] * 256 + bytes[3]
        IN  <<B64Digit(n \div 262144), B64Digit(n \div 4096),
              B64Digit(n \div 64), B64Digit(n)>>
            \o B64Encode(SubSeq(bytes, 4, Len(bytes)))

\* ----------------------------------------------------------------- inputs
\* A local variable that has not been assigned yet.
Unset == [t |-> "unset", v |-> <<>>]

\* Values a caller can put under jenkinsServerFQDN and searchString; a key
\* that is absent reads as None through dict.get.
FqdnValues == {PyNone, PyStr(<<>>), PyStr(<<"j">>)}
SearchValues == {PyNone, PyInt, PyStr(<<>>)} \cup {PyStr(w) : w \in Words}

\* The `arguments` member of the context: absent, JSON null, or an object.
ArgsAbsent == [t |-> "absent", fqdn |-> PyNone, search |-> PyNone]
ArgsNull == [t |-> "none", fqdn |-> PyNone, search |-> PyNone]
EmptyDict == [t |-> "dict", fqdn |-> PyNone, search |-> PyNone]
ArgsValues ==
    {ArgsAbsent, ArgsNull}
        \cup {[t |-> "dict", fqdn |-> f, search |-> s] : f \in FqdnValues, s \in SearchValues}

\* The raw context string: not JSON, a JSON array, or a JSON object.
Contexts ==
    {[kind |-> k, arguments |-> ArgsAbsent] : k \in {"notjson", "list"}}
        \cup {[kind |-> "dict", arguments |-> a] : a \in ArgsValues}

\* os.environ: each variable unset (None), set to "", or set to a value.
Environments ==
    [Token : {PyNone, PyStr(<<>>), PyStr(<<"t">>)},
     JENKINS_USER : {PyNone, PyStr(<<>>), PyStr(<<"u">>)}]

\* A job of the remote response; Jenkins derives the url from the name.
JobUrl(name) == <<"https://j/job/">> \o name
Job(name) == [name |-> name, url |-> JobUrl(name)]
RECURSIVE SeqsUpTo(_, _)
SeqsUpTo(S, n) ==
    IF n = 0 THEN {<<>>}
    ELSE LET shorter == SeqsUpTo(S, n - 1)
         IN  shorter \cup {Append(q, x) : q \in {r \in shorter : Len(r) = n - 1}, x \in S}
JobLists == SeqsUpTo({Job(w) : w \in Words}, MaxJobs)

\* Response bodies: not JSON, a JSON array, an object without `jobs`, an
\* object whose `jobs` is null or an array of jobs.
Bodies ==
    {[kind |-> k, hasJobs |-> FALSE, jobs |-> PyNone] : k \in {"notjson", "list", "dict"}}
        \cup {[kind |-> "dict", hasJobs |-> TRUE, jobs |-> PyNone]}
        \cup {[kind |-> "dict", hasJobs |-> TRUE, jobs |-> [t |-> "list", v |-> js]] :
                 js \in JobLists}
NoBody == [kind |-> "unset", hasJobs |-> FALSE, jobs |-> PyNone]
Statuses == {200, 500}
Responses == [status : Statuses, body : Bodies]
NoResponse == [status |-> 0, body |-> NoBody]

\* ------------------------------------------------------------- exceptions
Exc(cls, msg) == [cls |-> cls, msg |-> msg]
NoExc == Exc("none", "")

\* requests.RequestException and the subclasses the call can raise.
RequestExceptionClasses == {"Timeout", "ConnectionError", "HTTPError", "RequestsJSONDecodeError"}

\* Everything raised here derives from Exception.
ExceptionClasses ==
    RequestExceptionClasses
        \cup {"Exception", "JSONDecodeError", "ValueError", "AttributeError", "TypeError"}

\* `except requests.RequestException` of get_jenkins_jobs.
InnerCatches(cls) == cls \in RequestExceptionClasses

\* A handler that catches the request errors alone.
OuterCatchesRequestOnly(cls) == cls \in RequestExceptionClasses

\* `except Exception` of list_jenkins_jobs.
OuterCatches(cls) == cls \in ExceptionClasses

\* --------------------------------------------------------------- results
\* A dict with the key `error` or the key `jobs`; jobs is a list or None.
PyList(js) == [t |-> "list", v |-> js]
NoDict == [keys |-> {}, error |-> "", jobs |-> PyNone]
ErrorDict(msg) == [keys |-> {"error"}, error |-> msg, jobs |-> PyNone]
JobsDict(js) == [keys |-> {"jobs"}, error |-> "", jobs |-> js]

\* json.dumps: a str holding the serialised object.
JsonDumps(d) == [t |-> "str", json |-> d]
NoOutput == [t |-> "unset", json |-> NoDict]

FqdnRequiredMsg == "Jenkins server FQDN is required."
TokenNotConfiguredMsg == "Jenkins API token not configured."

LogEntry(text, msg) == [text |-> text, msg |-> msg]

\* timeout=10 of requests.get.
RequestTimeout == 10

\* ------------------------------------------------------------------ state
VARIABLES
    context,        \* the raw context string the framework passes in
    env,            \* os.environ
    pc,             \* the line the invocation is at
    content,        \* json.loads(context)
    args,           \* content.get("arguments", {})
    jenkins_fqdn,   \* args.get("jenkinsServerFQDN")
    search_string,  \* args.get("searchString")
    username,       \* os.environ.get("JENKINS_USER")
    token,          \* os.environ.get("Token")
    userpass,       \* the credential pair that is base64-encoded
    request,        \* the GET handed to requests.get
    remote,         \* how the remote request ended
    response,       \* the response received
    jobs,           \* the local `jobs` of get_jenkins_jobs
    result,         \* the dict get_jenkins_jobs returns
    exc,            \* the exception in flight
    output,         \* the handler's return value
    log,            \* the entries written with logging.error
    httpCalls,      \* the number of calls of requests.get
    tokenReads,     \* the number of calls of get_jenkins_token
    escaped         \* an exception left the handler

vars ==
    <<context, env, pc, content, args, jenkins_fqdn, search_string, username, token,
      userpass, request, remote, response, jobs, result, exc, output, log, httpCalls,
      tokenReads, escaped>>

NoContent == [t |-> "unset", arguments |-> ArgsAbsent]
NoArgs == [t |-> "unset", fqdn |-> PyNone, search |-> PyNone]
NoRequest == [url |-> <<>>, Authorization |-> <<>>, ContentType |-> "", timeout |-> 0]

Init ==
    /\ context \in Contexts
    /\ env \in Environments
    /\ pc = "l117"
    /\ content = NoContent
    /\ args = NoArgs
    /\ jenkins_fqdn = Unset
    /\ search_string = Unset
    /\ username = Unset
    /\ token = Unset
    /\ userpass = <<>>
    /\ request = NoRequest
    /\ remote = "none"
    /\ response = NoResponse
    /\ jobs = Unset
    /\ result = NoDict
    /\ exc = NoExc
    /\ output = NoOutput
    /\ log = <<>>
    /\ httpCalls = 0
    /\ tokenReads = 0
    /\ escaped = FALSE

\* ---------------------------------------------------- list_jenkins_jobs
\* json.loads: a value, or a JSONDecodeError for text that is not JSON.
JsonLoads(raw) ==
    IF raw.kind = "notjson"
    THEN [ok |-> FALSE, val |-> NoContent]
    ELSE [ok |-> TRUE, val |-> [t |-> raw.kind, arguments |-> raw.arguments]]

\* line 117: content = json.loads(context)
ParseContext ==
    /\ pc = "l117"
    /\ LET parsed == JsonLoads(context)
       IN  IF parsed.ok
           THEN /\ content' = parsed.val
                /\ pc' = "l118"
                /\ exc' = exc
           ELSE /\ exc' = Exc("JSONDecodeError", "Expecting value: line 1 column 1 (char 0)")
                /\ pc' = "raise_outer"
                /\ content' = content
    /\ UNCHANGED <<context, env, args, jenkins_fqdn, search_string, username, token,
                   userpass, request, remote, response, jobs, result, output, log,
                   httpCalls, tokenReads, escaped>>

\* line 118: args = content.get("arguments", {})
GetArguments ==
    /\ pc = "l118"
    /\ IF content.t = "dict"
       THEN /\ args' = IF content.arguments.t = "absent" THEN EmptyDict
                                                        ELSE content.arguments
            /\ pc' = "l119"
            /\ exc' = exc
       ELSE /\ exc' = Exc("AttributeError", "'list' object has no attribute 'get'")
            /\ pc' = "raise_outer"
            /\ args' = args
    /\ UNCHANGED <<context, env, content, jenkins_fqdn, search_string, username, token,
                   userpass, request, remote, response, jobs, result, output, log,
                   httpCalls, tokenReads, escaped>>

\* lines 119-120: the two args.get calls
GetProperties ==
    /\ pc = "l119"
    /\ IF args.t = "dict"
       THEN /\ jenkins_fqdn' = args.fqdn
            /\ search_string' = args.search
            /\ pc' = "l121"
            /\ exc' = exc
       ELSE /\ exc' = Exc("AttributeError", "'NoneType' object has no attribute 'get'")
            /\ pc' = "raise_outer"
            /\ UNCHANGED <<jenkins_fqdn, search_string>>
    /\ UNCHANGED <<context, env, content, args, username, token, userpass, request,
                   remote, response, jobs, result, output, log, httpCalls, tokenReads,
                   escaped>>

\* A validation that rejects an absent address only.
FqdnIsNone(fqdn) == fqdn.t = "none"

\* A handler without the validation.
FqdnNeverMissing(fqdn) == FALSE

\* line 121: `if not jenkins_fqdn`
FqdnMissing(fqdn) == ~Truthy(fqdn)

\* lines 121-122: the validation and its early return
ValidateFqdn ==
    /\ pc = "l121"
    /\ IF FqdnMissing(jenkins_fqdn)
       THEN /\ output' = JsonDumps(ErrorDict(FqdnRequiredMsg))
            /\ pc' = "done"
       ELSE /\ pc' = "l75"
            /\ output' = output
    /\ UNCHANGED <<context, env, content, args, jenkins_fqdn, search_string, username,
                   token, userpass, request, remote, response, jobs, result, exc, log,
                   httpCalls, tokenReads, escaped>>

\* ---------------------------------------------------- get_jenkins_token
\* A check that rejects an unset token only.
TokenIsNone(tok) == tok.t = "none"

\* line 59: `if not token`
TokenMissing(tok) == ~Truthy(tok)

\* lines 58-63, called from line 75, outside the try of get_jenkins_jobs
GetJenkinsToken ==
    /\ pc = "l75"
    /\ tokenReads' = tokenReads + 1
    /\ IF TokenMissing(env.Token)
       THEN /\ log' = Append(log, LogEntry("Jenkins API token not found in environment variables.", ""))
            /\ exc' = Exc("Exception", TokenNotConfiguredMsg)
            /\ pc' = "raise_outer"
            /\ UNCHANGED <<username, token>>
       ELSE /\ username' = env.JENKINS_USER
            /\ token' = env.Token
            /\ pc' = "l76"
            /\ UNCHANGED <<log, exc>>
    /\ UNCHANGED <<context, env, content, args, jenkins_fqdn, search_string, userpass,
                   request, remote, response, jobs, result, output, httpCalls, escaped>>

\* ----------------------------------------------------- get_jenkins_jobs
\* line 76: f"{username}:{token}"
UserPass(user, tok) == PyFormat(user) \o <<":">> \o PyFormat(tok)

\* lines 78 and 81: "Basic " and the base64 of the encoded pair
BasicAuth(pair) == <<"B", "a", "s", "i", "c", " ">> \o B64Encode(Encode(pair))

\* line 79
Url(fqdn) == <<"https://">> \o PyFormat(fqdn) \o <<"/api/json?tree=jobs[name,url]">>

\* lines 76-83: the credential pair, the url and the headers
BuildHeaders ==
    /\ pc = "l76"
    /\ userpass' = UserPass(username, token)
    /\ request' = [url |-> Url(jenkins_fqdn),
                   Authorization |-> BasicAuth(UserPass(username, token)),
                   ContentType |-> "application/json",
                   timeout |-> RequestTimeout]
    /\ pc' = "l86"
    /\ UNCHANGED <<context, env, content, args, jenkins_fqdn, search_string, username,
                   token, remote, response, jobs, result, exc, output, log, httpCalls,
                   tokenReads, escaped>>

\* line 86: requests.get; the remote end times out, refuses, or answers
RequestsGet ==
    /\ pc = "l86"
    /\ httpCalls' = httpCalls + 1
    /\ \/ /\ remote' = "timeout"
          /\ exc' = Exc("Timeout", "Read timed out. (read timeout=10)")
          /\ pc' = "raise_inner"
          /\ response' = response
       \/ /\ remote' = "connection"
          /\ exc' = Exc("ConnectionError", "Failed to establish a new connection")
          /\ pc' = "raise_inner"
          /\ response' = response
       \/ \E r \in Responses :
             /\ remote' = "response"
             /\ response' = r
             /\ pc' = "l87"
             /\ exc' = exc
    /\ UNCHANGED <<context, env, content, args, jenkins_fqdn, search_string, username,
                   token, userpass, request, jobs, result, output, log, tokenReads,
                   escaped>>

\* A raise_for_status that lets every status through.
StatusNeverError(status) == FALSE

\* Response.raise_for_status: 4xx and 5xx raise HTTPError
StatusIsError(status) == status >= 400 /\ status < 600

\* line 87
RaiseForStatus ==
    /\ pc = "l87"
    /\ IF StatusIsError(response.status)
       THEN /\ exc' = Exc("HTTPError", "500 Server Error")
            /\ pc' = "raise_inner"
       ELSE /\ pc' = "l88"
            /\ exc' = exc
    /\ UNCHANGED <<context, env, content, args, jenkins_fqdn, search_string, username,
                   token, userpass, request, remote, response, jobs, result, output, log,
                   httpCalls, tokenReads, escaped>>

\* A .get("jobs") without the default.
DictGetJobsNoDefault(body) == IF body.hasJobs THEN body.jobs ELSE PyNone

\* line 88: .get("jobs", [])
DictGetJobs(body) == IF body.hasJobs THEN body.jobs ELSE PyList(<<>>)

\* line 88: response.json().get("jobs", []).  A body that is not JSON raises
\* requests' JSONDecodeError (a RequestException) or, with requests before
\* 2.27, a plain ValueError; a JSON array has no .get.
ResponseJson ==
    /\ pc = "l88"
    /\ \/ /\ response.body.kind = "notjson"
          /\ \E cls \in {"RequestsJSONDecodeError", "ValueError"} :
                exc' = Exc(cls, "Expecting value: line 1 column 1 (char 0)")
          /\ pc' = "raise_inner"
          /\ jobs' = jobs
       \/ /\ response.body.kind = "list"
          /\ exc' = Exc("AttributeError", "'list' object has no attribute 'get'")
          /\ pc' = "raise_inner"
          /\ jobs' = jobs
       \/ /\ response.body.kind = "dict"
          /\ jobs' = DictGetJobs(response.body)
          /\ pc' = "l90"
          /\ exc' = exc
    /\ UNCHANGED <<context, env, content, args, jenkins_fqdn, search_string, username,
                   token, userpass, request, remote, response, result, output, log,
                   httpCalls, tokenReads, escaped>>

\* A comparison that lower-cases the job name only.
MatchesNameLowered(search, name) == StrIn(search, Lower(name))

\* line 91: search_string.lower() in job["name"].lower()
Matches(search, name) == StrIn(Lower(search), Lower(name))

\* lines 90-91: the optional filter.  The comprehension evaluates
\* search_string.lower() once per job, so a search value that is no str
\* raises only when there is a job; iterating None raises TypeError.
FilterJobs ==
    /\ pc = "l90"
    /\ IF ~Truthy(search_string)
       THEN /\ pc' = "l92"
            /\ UNCHANGED <<jobs, exc>>
       ELSE IF jobs.t # "list"
       THEN /\ exc' = Exc("TypeError", "'NoneType' object is not iterable")
            /\ pc' = "raise_inner"
            /\ jobs' = jobs
       ELSE IF search_string.t # "str" /\ jobs.v # <<>>
       THEN /\ exc' = Exc("AttributeError", "'int' object has no attribute 'lower'")
            /\ pc' = "raise_inner"
            /\ jobs' = jobs
       ELSE /\ LET Keep(job) == Matches(search_string.v, job.name)
               IN  jobs' = PyList(SelectSeq(jobs.v, Keep))
            /\ pc' = "l92"
            /\ exc' = exc
    /\ UNCHANGED <<context, env, content, args, jenkins_fqdn, search_string, username,
                   token, userpass, request, remote, response, result, output, log,
                   httpCalls, tokenReads, escaped>>

\* line 92: return {"jobs": jobs}
ReturnJobs ==
    /\ pc = "l92"
    /\ result' = JobsDict(jobs)
    /\ pc' = "l125"
    /\ UNCHANGED <<context, env, content, args, jenkins_fqdn, search_string, username,
                   token, userpass, request, remote, response, jobs, exc, output, log,
                   httpCalls, tokenReads, escaped>>

\* A handler that tries the request again after a failure.
RetryAfterRequestError == IF httpCalls < 2 THEN "l86" ELSE "l125"

\* line 95: the error dict is returned to line 125; nothing is retried
AfterRequestError == "l125"

\* lines 93-95: `except requests.RequestException`; any other exception
\* leaves get_jenkins_jobs for the handler's try
JobsExcept ==
    /\ pc = "raise_inner"
    /\ IF InnerCatches(exc.cls)
       THEN /\ log' = Append(log, LogEntry("Error calling Jenkins API: ", exc.msg))
            /\ result' = ErrorDict(exc.msg)
            /\ exc' = NoExc
            /\ pc' = AfterRequestError
       ELSE /\ pc' = "raise_outer"
            /\ UNCHANGED <<log, result, exc>>
    /\ UNCHANGED <<context, env, content, args, jenkins_fqdn, search_string, username,
                   token, userpass, request, remote, response, jobs, output, httpCalls,
                   tokenReads, escaped>>

\* ------------------------------------------- list_jenkins_jobs, the end
\* line 125: return json.dumps(result)
DumpResult ==
    /\ pc = "l125"
    /\ output' = JsonDumps(result)
    /\ pc' = "done"
    /\ UNCHANGED <<context, env, content, args, jenkins_fqdn, search_string, username,
                   token, userpass, request, remote, response, jobs, result, exc, log,
                   httpCalls, tokenReads, escaped>>

\* A handler that converts the exception without logging it.
OuterLogNothing(entries, e) == entries

\* line 127: logging.error(f"Exception in list_jenkins_jobs: {ex}")
OuterLog(entries, e) == Append(entries, LogEntry("Exception in list_jenkins_jobs: ", e.msg))

\* lines 126-128: `except Exception`: log, then return the error object
HandlerExcept ==
    /\ pc = "raise_outer"
    /\ IF OuterCatches(exc.cls)
       THEN /\ log' = OuterLog(log, exc)
            /\ output' = JsonDumps(ErrorDict(exc.msg))
            /\ pc' = "done"
            /\ escaped' = escaped
       ELSE /\ escaped' = TRUE
            /\ pc' = "raised"
            /\ UNCHANGED <<log, output>>
    /\ UNCHANGED <<context, env, content, args, jenkins_fqdn, search_string, username,
                   token, userpass, request, remote, response, jobs, result, exc,
                   httpCalls, tokenReads>>

Next ==
    \/ ParseContext
    \/ GetArguments
    \/ GetProperties
    \/ ValidateFqdn
    \/ GetJenkinsToken
    \/ BuildHeaders
    \/ RequestsGet
    \/ RaiseForStatus
    \/ ResponseJson
    \/ FilterJobs
    \/ ReturnJobs
    \/ JobsExcept
    \/ DumpResult
    \/ HandlerExcept

Spec == Init /\ [][Next]_vars

\* ------------------------------------------------------------ properties
Done == pc = "done"
IsErrorOutput == output.t = "str" /\ output.json.keys = {"error"}
FqdnRequiredOutput == JsonDumps(ErrorDict(FqdnRequiredMsg))
TokenNotConfiguredOutput == JsonDumps(ErrorDict(TokenNotConfiguredMsg))

\* The context as the caller wrote it: it parses, it has the expected shape
\* (an object whose `arguments` is absent or an object), and the
\* serverAddress it carries (None when there is nowhere to carry it).
ContextParses == context.kind # "notjson"
ContextWellShaped == context.kind = "dict" /\ context.arguments.t \in {"absent", "dict"}
ContextFqdn ==
    IF context.kind = "dict" /\ context.arguments.t = "dict"
    THEN context.arguments.fqdn ELSE PyNone
ContextSearch ==
    IF context.kind = "dict" /\ context.arguments.t = "dict"
    THEN context.arguments.search ELSE PyNone
AbsentOrEmpty(x) == x = PyNone \/ x = PyStr(<<>>)
EnvTokenMissing == AbsentOrEmpty(env.Token)

\* C1: for every context, environment and remote behaviour no exception
\* leaves list_jenkins_jobs: the handler is never stuck before its return,
\* and it returns a string.
C1_HandlerAlwaysReturnsString ==
    /\ ~escaped
    /\ pc # "raised"
    /\ (~Done => ENABLED Next /\ output = NoOutput)
    /\ (Done => output.t = "str" /\ output.json.keys \in {{"error"}, {"jobs"}})

\* C1 witness: an AttributeError raised after the HTTP call (a search value
\* that is no string) was caught and converted.
C1_Witness ==
    /\ Done
    /\ httpCalls = 1
    /\ exc.cls = "AttributeError"
    /\ ContextSearch = PyInt
    /\ IsErrorOutput

\* C2 as claimed: whenever the parsed context (here: a JSON object) has
\* serverAddress absent or empty, the output is exactly the "FQDN is required" error and no HTTP
\* request is issued.
C2_Original ==
    (context.kind = "dict" /\ AbsentOrEmpty(ContextFqdn)) =>
        /\ httpCalls = 0
        /\ (Done => output = FqdnRequiredOutput)

\* C2 amended: when the context parses to an object whose `arguments` is
\* absent or an object, and serverAddress is absent or empty, the output is
\* exactly the "FQDN is required" error; for every parsed context without a
\* serverAddress no HTTP request is issued and the output is an error object.
C2_MissingFqdnIsValidationError ==
    (ContextParses /\ AbsentOrEmpty(ContextFqdn)) =>
        /\ httpCalls = 0
        /\ request = NoRequest
        /\ (Done => IsErrorOutput)
        /\ (Done /\ ContextWellShaped => output = FqdnRequiredOutput)

\* C2 witness: an empty jenkinsServerFQDN was rejected.
C2_Witness ==
    /\ Done
    /\ context.arguments.t = "dict"
    /\ ContextFqdn = PyStr(<<>>)
    /\ output = FqdnRequiredOutput
    /\ httpCalls = 0

\* C3 as claimed: in every invocation (here: with a well-shaped context)
\* made while the token is absent or empty the output is the "token not configured" error and no HTTP request
\* is issued.
C3_Original ==
    (EnvTokenMissing /\ ContextWellShaped) =>
        /\ httpCalls = 0
        /\ (Done => output = TokenNotConfiguredOutput)

\* C3 amended: while the token is absent or empty no HTTP request is ever
\* issued, and every invocation that passes the input validation (a
\* well-shaped context with a non-empty serverAddress) returns the "token
\* not configured" error.
C3_MissingTokenFailsBeforeRequest ==
    EnvTokenMissing =>
        /\ httpCalls = 0
        /\ request = NoRequest
        /\ (Done /\ ContextWellShaped /\ ~AbsentOrEmpty(ContextFqdn)
                => output = TokenNotConfiguredOutput)

\* C3 witness: the token is set to the empty string and was looked up.
C3_Witness ==
    /\ Done
    /\ env.Token = PyStr(<<>>)
    /\ tokenReads = 1
    /\ output = TokenNotConfiguredOutput
    /\ httpCalls = 0

\* The remote request succeeded with a JSON object.
RemoteSucceeded ==
    /\ remote = "response"
    /\ response.status = 200
    /\ response.body.kind = "dict"
RemoteJobList == RemoteSucceeded /\ response.body.hasJobs /\ response.body.jobs.t = "list"

\* name.lower() contains search.lower(), character by character.
NameContains(search, name) ==
    \E off \in 0..(Len(name) - Len(search)) :
        \A k \in 1..Len(search) : LowerChar(name[off + k]) = LowerChar(search[k])

\* The k-th smallest element of a set of indices.
KthIndex(S, k) == CHOOSE i \in S : Cardinality({j \in S : j <= i}) = k

\* C4: with a non-empty search string and a job list from the remote end,
\* the result's jobs are exactly the remote jobs whose lower-cased name
\* contains the lower-cased search string, in the remote order and verbatim.
C4_FilterIsExactSubsequence ==
    (Done /\ RemoteJobList /\ ContextSearch.t = "str" /\ ContextSearch.v # <<>>) =>
        LET R == response.body.jobs.v
            M == {i \in 1..Len(R) : NameContains(ContextSearch.v, R[i].name)}
        IN  /\ output.t = "str"
            /\ output.json.keys = {"jobs"}
            /\ output.json.jobs.t = "list"
            /\ Len(output.json.jobs.v) = Cardinality(M)
            /\ \A k \in 1..Cardinality(M) : output.json.jobs.v[k] = R[KthIndex(M, k)]

\* C4 witness: of two remote jobs the first was dropped and the second kept
\* on a match that needs both sides lower-cased.
C4_Witness ==
    /\ Done
    /\ RemoteJobList
    /\ ContextSearch = PyStr(<<"A", "b">>)
    /\ Len(response.body.jobs.v) = 2
    /\ response.body.jobs.v[1].name = <<"b", "a">>
    /\ response.body.jobs.v[2].name = <<"a", "b">>
    /\ output.json.jobs = PyList(<<response.body.jobs.v[2]>>)

\* C5: with a non-empty serverAddress and the search string absent or
\* empty, a successful response's job list is returned whole and in order,
\* and a response without `jobs` gives the empty list.
C5_NoFilterReturnsAll ==
    (Done /\ RemoteSucceeded /\ AbsentOrEmpty(ContextSearch)) =>
        /\ output.t = "str"
        /\ output.json.keys = {"jobs"}
        /\ (response.body.hasJobs => output.json.jobs = response.body.jobs)
        /\ (~response.body.hasJobs => output.json.jobs = PyList(<<>>))

\* C5 witness: two different jobs came back as they were sent.
C5_Witness ==
    /\ Done
    /\ RemoteJobList
    /\ ContextSearch = PyNone
    /\ Len(response.body.jobs.v) = 2
    /\ response.body.jobs.v[1] # response.body.jobs.v[2]
    /\ output.json.jobs = response.body.jobs

\* The request ended in a timeout, a connection error, a non-success status
\* or a body that is not a JSON object.
RemoteFailed ==
    \/ remote \in {"timeout", "connection"}
    \/ remote = "response" /\ response.status # 200
    \/ remote = "response" /\ response.status = 200
          /\ response.body.kind \in {"notjson", "list"}

\* C6: when the request ends in a network-layer failure the output is an
\* object with an error message and no jobs, the failure is not raised out
\* of the handler, and the body of a non-success response is never parsed.
C6_RemoteFailureIsErrorObject ==
    RemoteFailed =>
        /\ ~escaped
        /\ jobs = Unset
        /\ result.keys # {"jobs"}
        /\ (Done => IsErrorOutput /\ output.json.error # "" /\ output.json.jobs = PyNone)

\* C6 witness: a 500 response whose body holds a job list gave an error.
C6_Witness ==
    /\ Done
    /\ remote = "response"
    /\ response.status = 500
    /\ response.body.jobs.t = "list"
    /\ response.body.jobs.v # <<>>
    /\ IsErrorOutput

\* C7: at most one HTTP GET is issued in an invocation.
C7_AtMostOneRequest == httpCalls <= 1

\* C7 witness: the request timed out and the invocation ended after it.
C7_Witness ==
    /\ Done
    /\ remote = "timeout"
    /\ httpCalls = 1
    /\ IsErrorOutput

\* The message of the error output is in the log.
ErrorWasLogged == \E i \in 1..Len(log) : log[i].msg = output.json.error

\* C8 as claimed: every error output, of every failure class, comes after a
\* log entry for that failure.
C8_Original == IsErrorOutput => ErrorWasLogged

\* C8 amended: every error output other than the validation error (missing
\* or empty serverAddress) comes after a log entry with its message; the
\* validation error is returned without any log entry.
C8_ErrorsLoggedExceptValidation ==
    /\ (IsErrorOutput /\ output # FqdnRequiredOutput) => ErrorWasLogged
    /\ output = FqdnRequiredOutput => log = <<>>

\* C8 witness: a context that is not JSON was logged and converted.
C8_Witness ==
    /\ Done
    /\ context.kind = "notjson"
    /\ IsErrorOutput
    /\ Len(log) = 1
    /\ log[1].msg = output.json.error

\* C9 as claimed: once the request is built, a username that is absent or
\* empty gives the credential pair ":token", and a configured username gives
\* "username:token"; the header carries the base64 of that pair.
C9_Claim ==
    pc \notin {"l117", "l118", "l119", "l121", "l75", "l76"} /\ tokenReads = 1 /\ ~EnvTokenMissing =>
        LET pair == IF AbsentOrEmpty(env.JENKINS_USER)
                    THEN <<":">> \o env.Token.v
                    ELSE env.JENKINS_USER.v \o <<":">> \o env.Token.v
        IN  /\ userpass = pair
            /\ request.Authorization = <<"B", "a", "s", "i", "c", " ">> \o B64Encode(Encode(pair))

\* C10 as claimed: get_jenkins_token is called only after serverAddress was
\* found non-empty, and an invocation with serverAddress absent or empty
\* returns the "FQDN is required" error without reading the token.
C10_Original ==
    /\ tokenReads > 0 => Truthy(jenkins_fqdn)
    /\ (context.kind = "dict" /\ AbsentOrEmpty(ContextFqdn)) =>
          /\ tokenReads = 0
          /\ (Done => output = FqdnRequiredOutput)

\* C10 amended: get_jenkins_token is called only after serverAddress was
\* found non-empty; an invocation with serverAddress absent or empty never
\* reads the token, and when its context is well-shaped it returns the
\* "FQDN is required" error, also when the token is not configured.
C10_ValidationPrecedesCredentials ==
    /\ tokenReads > 0 => Truthy(jenkins_fqdn)
    /\ AbsentOrEmpty(ContextFqdn) =>
          /\ tokenReads = 0
          /\ token = Unset
          /\ (Done /\ ContextWellShaped => output = FqdnRequiredOutput)

\* C10 witness: serverAddress and token both missing; the validation error
\* was returned and the token never read.
C10_Witness ==
    /\ Done
    /\ ContextWellShaped
    /\ ContextFqdn = PyNone
    /\ EnvTokenMissing
    /\ tokenReads = 0
    /\ output = FqdnRequiredOutput

====
